---- MODULE Spec2Model ----
(***************************************************************************)
(* Model of gen_waveforms.py: visualize_waveform reads an audio file in    *)
(* blocks, reduces every channel to (max, min) points per window with a    *)
(* clip flag, builds the time axis with linspace and plots the channels.   *)
(*                                                                         *)
(* Sample values are fixed-point integers in units of 1e-6 of full scale,  *)
(* so 1.0 is FullScale and the clip threshold 1.0 - 1e-6 is FullScale - 1. *)
(* Times are exact rationals <<numerator, denominator>>.  target_points    *)
(* (50000 in the source) and the sample rate are scaled down and drawn     *)
(* from small ranges so that several blocks and several windows occur.     *)
(***************************************************************************)
EXTENDS Integers, Sequences, FiniteSets

\* ---------------------------------------------------------------- bounds
MaxFrames == 6
MaxChannels == 2
MaxTargetPoints == 2
MaxSampleRate == 2

\* ------------------------------------------------------- program constants
FullScale == 1000000
ClipThreshold == FullScale - 1
ChunkSeconds == 5

\* Values of the first channel: clipped negative, just below the threshold, exactly
\* at the threshold.
SampleValues == {-FullScale, ClipThreshold - 1, ClipThreshold}
\* Every further channel is the first channel scaled by one of these gains.
Gains == {-1, 0, 1}

VARIABLES
    num_channels,       \* info.channels
    samplerate,         \* info.samplerate
    total_samples,      \* info.frames
    target_points,      \* target_points
    samples,            \* the file's content: channel -> sequence of samples
    pos,                \* frames already delivered by f.blocks
    block_channels,     \* block.shape[1] of the last block read (0: none yet)
    downsampled_data,   \* channel -> sequence of values
    clipped_status,     \* channel -> sequence of flags
    windows,            \* the (first, last) frame of every window sliced, in order
    time_downsampled,   \* the time axis (sequence of rationals)
    plot_x,             \* channel -> the x data handed to ax.plot
    figure,             \* "none" | "open" | "closed"
    image,              \* TRUE once savefig has written the image
    exc,                \* exception in flight ("none": no exception)
    caught,             \* the exception the except clause caught
    printed,            \* last message printed
    pc                  \* "reading" | "except" | "done"

vars == <<num_channels, samplerate, total_samples, target_points, samples, pos,
          block_channels, downsampled_data, clipped_status, windows,
          time_downsampled, plot_x, figure, image, exc, caught, printed, pc>>

\* ------------------------------------------------------------ pure helpers
Abs(x) == IF x < 0 THEN -x ELSE x

Smaller(a, b) == IF a < b THEN a ELSE b

Range(s) == {s[i] : i \in 1..Len(s)}

\* np.max(window), np.min(window) of a non-empty window
NpMax(window) == CHOOSE m \in Range(window) : \A v \in Range(window) : v <= m

NpMin(window) == CHOOSE m \in Range(window) : \A v \in Range(window) : m <= v

DownsampleFactorNoClamp(total, target) == total \div target

\* downsample_factor, from total_samples and target_points
DownsampleFactor(total, target) ==
    IF total > target THEN total \div target ELSE 1

\* chunk_size_samples = int(samplerate * 5)
ChunkSize(rate) == rate * ChunkSeconds

RECURSIVE RangeFromWholeOnly(_, _, _)
RangeFromWholeOnly(j, stop, step) ==
    IF j + step > stop THEN <<>>
    ELSE <<j>> \o RangeFromWholeOnly(j + step, stop, step)

\* range(0, stop, step), zero based, as a sequence
RECURSIVE RangeFrom(_, _, _)
RangeFrom(j, stop, step) ==
    IF j >= stop THEN <<>> ELSE <<j>> \o RangeFrom(j + step, stop, step)

\* channel_data[j:j+downsample_factor] (zero-based j, clamped at the end)
WindowSlice(channel_data, j, factor) ==
    SubSeq(channel_data, j + 1, Smaller(j + factor, Len(channel_data)))

IsClippedNoAbs(window) == \E i \in 1..Len(window) : window[i] >= ClipThreshold

\* np.any(np.abs(window) >= 1.0 - 1e-6)
IsClipped(window) == \E i \in 1..Len(window) : Abs(window[i]) >= ClipThreshold

WindowPointsMinFirst(window) == <<NpMin(window), NpMax(window)>>

\* the two values appended for one window
WindowPoints(window) == <<NpMax(window), NpMin(window)>>

\* the two flags appended for one window
WindowFlags(window) == <<IsClipped(window), IsClipped(window)>>

\* the inner loop over j for one channel of one block: what is appended to
\* downsampled_data[i] and clipped_status[i]
RECURSIVE ReduceChannel(_, _, _)
ReduceChannel(channel_data, js, factor) ==
    IF js = <<>> THEN [data |-> <<>>, clipped |-> <<>>]
    ELSE LET window == WindowSlice(channel_data, Head(js), factor)
             rest == ReduceChannel(channel_data, Tail(js), factor)
         IN IF Len(window) > 0
            THEN [data |-> WindowPoints(window) \o rest.data,
                  clipped |-> WindowFlags(window) \o rest.clipped]
            ELSE rest

\* the frames (one-based, in the whole stream) of the windows sliced from a
\* block of len frames that starts after `offset` frames
BlockWindows(offset, len, factor) ==
    LET js == RangeFrom(0, len, factor)
    IN [k \in 1..Len(js) |->
            <<offset + js[k] + 1, offset + Smaller(js[k] + factor, len)>>]

VisitedChannelsFromSecond(bc, nc) == 2..Smaller(bc, nc)

\* the channels of a block that enumerate(block.T) visits, for a block of
\* bc channels in a stream of nc channels (an index >= nc raises IndexError)
VisitedChannels(bc, nc) == 1..Smaller(bc, nc)

LinspaceNoEndpoint(stop, num) ==
    [k \in 1..num |-> <<(k - 1) * stop[1], num * stop[2]>>]

\* np.linspace(0, stop, num) for stop = <<n, d>>
Linspace(stop, num) ==
    IF num = 0 THEN <<>>
    ELSE IF num = 1 THEN << <<0, 1>> >>
    ELSE [k \in 1..num |->
            IF k = num THEN stop
            ELSE <<(k - 1) * stop[1], (num - 1) * stop[2]>>]

\* the whole block loop for one channel, for a chunk size given explicitly:
\* what a run with that chunk size appends to the channel's two lists
RECURSIVE ReduceStream(_, _, _, _)
ReduceStream(channel_data, offset, chunk, factor) ==
    IF offset >= Len(channel_data) THEN [data |-> <<>>, clipped |-> <<>>]
    ELSE LET len == Smaller(chunk, Len(channel_data) - offset)
             block == SubSeq(channel_data, offset + 1, offset + len)
             first == ReduceChannel(block, RangeFrom(0, len, factor), factor)
             rest == ReduceStream(channel_data, offset + len, chunk, factor)
         IN [data |-> first.data \o rest.data,
             clipped |-> first.clipped \o rest.clipped]

\* --------------------------------------------------------- derived values
downsample_factor == DownsampleFactor(total_samples, target_points)

chunk_size_samples == ChunkSize(samplerate)

total_duration == <<total_samples, samplerate>>

Channels == 1..num_channels

\* ------------------------------------------------------------------- Init
Init ==
    /\ num_channels \in 1..MaxChannels
    /\ samplerate \in 1..MaxSampleRate
    /\ total_samples \in 0..MaxFrames
    /\ target_points \in 1..MaxTargetPoints
    /\ \E base \in [1..total_samples -> SampleValues] :
       \E gain \in [2..num_channels -> Gains] :
          samples = [c \in 1..num_channels |->
                        [f \in 1..total_samples |->
                            IF c = 1 THEN base[f] ELSE gain[c] * base[f]]]
    /\ pos = 0
    /\ block_channels = 0
    /\ downsampled_data = [c \in 1..num_channels |-> <<>>]
    /\ clipped_status = [c \in 1..num_channels |-> <<>>]
    /\ windows = <<>>
    /\ time_downsampled = <<>>
    /\ plot_x = [c \in 1..num_channels |-> <<>>]
    /\ figure = "none"
    /\ image = FALSE
    /\ exc = "none"
    /\ caught = "none"
    /\ printed = "Reading chunks"
    /\ pc = "reading"

\* ---------------------------------------------------------------- actions
\* One iteration of `for block in f.blocks(...)` on a block of bc channels.
ConsumeBlock(bc) ==
    /\ pc = "reading"
    /\ pos < total_samples
    /\ LET len == Smaller(chunk_size_samples, total_samples - pos)
           js == RangeFrom(0, len, downsample_factor)
           visited == VisitedChannels(bc, num_channels)
           channel_data(c) == SubSeq(samples[c], pos + 1, pos + len)
           red(c) == ReduceChannel(channel_data(c), js, downsample_factor)
       IN /\ downsampled_data' =
                [c \in Channels |->
                    IF c \in visited THEN downsampled_data[c] \o red(c).data
                    ELSE downsampled_data[c]]
          /\ clipped_status' =
                [c \in Channels |->
                    IF c \in visited THEN clipped_status[c] \o red(c).clipped
                    ELSE clipped_status[c]]
          /\ windows' = windows \o BlockWindows(pos, len, downsample_factor)
          /\ pos' = pos + len
    /\ block_channels' = bc
    /\ IF bc > num_channels
       THEN exc' = "IndexError" /\ pc' = "except"
       ELSE exc' = exc /\ pc' = pc
    /\ UNCHANGED <<num_channels, samplerate, total_samples, target_points,
                   samples, time_downsampled, plot_x, figure, image, caught,
                   printed>>

\* A block as soundfile delivers it: every block has info.channels channels.
ProcessBlock == ConsumeBlock(num_channels)

\* A block whose channel count differs from info.channels.
ProcessMalformedBlock ==
    \E bc \in (1..(MaxChannels + 1)) \ {num_channels} : ConsumeBlock(bc)

\* After the last block: figure, time axis, one plot per channel, savefig.
Plot ==
    /\ pc = "reading"
    /\ pos = total_samples
    /\ LET n == Len(downsampled_data[1])
           axis == Linspace(total_duration, n)
           bad == {c \in Channels : Len(downsampled_data[c]) # n}
           ok(c) == \A b \in bad : c < b
       IN /\ time_downsampled' = axis
          /\ IF n = 0
             THEN /\ plot_x' = plot_x
                  /\ exc' = "IndexError"
             ELSE /\ plot_x' = [c \in Channels |-> IF ok(c) THEN axis ELSE <<>>]
                  /\ exc' = IF bad = {} THEN "none" ELSE "ValueError"
          /\ IF n # 0 /\ bad = {}
             THEN /\ image' = TRUE
                  /\ printed' = "Successfully generated waveform image"
                  /\ figure' = "closed"
                  /\ pc' = "done"
             ELSE /\ image' = image
                  /\ printed' = "Plotting waveforms"
                  /\ figure' = "open"
                  /\ pc' = "except"
    /\ UNCHANGED <<num_channels, samplerate, total_samples, target_points,
                   samples, pos, block_channels, downsampled_data,
                   clipped_status, windows, caught>>

\* except Exception as e: print(...); finally: plt.close(); the function
\* then returns normally.
HandleException ==
    /\ pc = "except"
    /\ printed' = "An error occurred"
    /\ caught' = exc
    /\ exc' = "none"
    /\ figure' = IF figure = "open" THEN "closed" ELSE figure
    /\ pc' = "done"
    /\ UNCHANGED <<num_channels, samplerate, total_samples, target_points,
                   samples, pos, block_channels, downsampled_data,
                   clipped_status, windows, time_downsampled, plot_x, image>>

Next == ProcessBlock \/ Plot \/ HandleException

Spec == Init /\ [][Next]_vars

NextMalformed == ProcessBlock \/ ProcessMalformedBlock \/ Plot \/ HandleException

SpecMalformed == Init /\ [][NextMalformed]_vars

\* ----------------------------------------------------------------- claims
CeilDiv(a, b) == (a + b - 1) \div b

Larger(a, b) == IF a > b THEN a ELSE b

\* a <= b and a = b for rationals with positive denominators
RatLeq(a, b) == a[1] * b[2] <= b[1] * a[2]

RatEq(a, b) == a[1] * b[2] = b[1] * a[2]

Plotted == pc \in {"except", "done"} /\ figure # "none"

\* the samples of channel c that composed window k
WindowSamples(c, k) == {samples[c][f] : f \in windows[k][1]..windows[k][2]}

\* C1: once a stream of at least one frame is consumed, every channel holds
\* exactly 2 * ceil(total_frames / downsample_factor) points.
C1_OutputLength ==
    (pos = total_samples /\ total_samples >= 1) =>
        \A c \in Channels :
            Len(downsampled_data[c]) = 2 * CeilDiv(total_samples, downsample_factor)

\* C2: the chunk size does not affect the output: the lists a run has built
\* when the stream is consumed equal the lists of a run of the same stream and
\* factor under any other chunk size the program can derive.
C2_ChunkSizeIrrelevant ==
    pos = total_samples =>
        \A rate \in 1..MaxSampleRate : \A c \in Channels :
            LET other == ReduceStream(samples[c], 0, ChunkSize(rate), downsample_factor)
            IN /\ downsampled_data[c] = other.data
               /\ clipped_status[c] = other.clipped

\* C3: the two points of every emitted window carry the same clip flag, and
\* the flag is true exactly when some sample of the window has absolute value
\* at or above the clip threshold.
C3_ClipFlag ==
    \A c \in Channels :
        /\ Len(clipped_status[c]) = 2 * Len(windows)
        /\ \A k \in 1..Len(windows) :
            /\ clipped_status[c][2 * k - 1] = clipped_status[c][2 * k]
            /\ clipped_status[c][2 * k] =
                 (\E v \in WindowSamples(c, k) : v >= ClipThreshold \/ -v >= ClipThreshold)

C3_Witness ==
    /\ pos = total_samples
    /\ Len(windows) >= 2
    /\ \E k \in 1..Len(windows) :
          /\ windows[k][2] > windows[k][1]
          /\ clipped_status[1][2 * k]
          /\ \A v \in WindowSamples(1, k) : v < ClipThreshold
    /\ \E k \in 1..Len(windows) : ~clipped_status[1][2 * k]

\* C4: every emitted window appends its largest sample and then its smallest
\* sample, so max >= min and both are samples of the window.
C4_MaxThenMin ==
    \A c \in Channels :
        /\ Len(downsampled_data[c]) = 2 * Len(windows)
        /\ \A k \in 1..Len(windows) :
            LET hi == downsampled_data[c][2 * k - 1]
                lo == downsampled_data[c][2 * k]
            IN /\ hi >= lo
               /\ hi \in WindowSamples(c, k)
               /\ lo \in WindowSamples(c, k)
               /\ \A v \in WindowSamples(c, k) : lo <= v /\ v <= hi

C4_Witness ==
    /\ pos = total_samples
    /\ \E k \in 1..Len(windows) :
          /\ downsampled_data[1][2 * k - 1] > downsampled_data[1][2 * k]
          /\ samples[1][windows[k][1]] = downsampled_data[1][2 * k]

\* C5: a stream of zero frames ends in EmptyStreamError reaching the caller,
\* and no image is written.
C5_EmptyStreamError ==
    (pc = "done" /\ total_samples = 0) =>
        (exc = "EmptyStreamError" /\ ~image)

\* C6: once a block whose channel count differs from the stream's has been
\* read, the run has failed with MalformedStreamError and nothing has been
\* handed to the renderer.
C6_MalformedStreamError ==
    (block_channels # 0 /\ block_channels # num_channels) =>
        /\ "MalformedStreamError" \in {exc, caught}
        /\ pc # "reading"
        /\ figure = "none"

\* C7: downsample_factor = max(1, floor(total_frames / target_points)); it is
\* at least 1, and 1 whenever total_frames <= target_points.
C7_Factor ==
    /\ downsample_factor = Larger(1, total_samples \div target_points)
    /\ downsample_factor >= 1
    /\ (total_samples <= target_points => downsample_factor = 1)

C7_Witness ==
    /\ pos = total_samples
    /\ total_samples > target_points
    /\ downsample_factor >= 2
    /\ total_samples % target_points # 0
    /\ Len(windows) >= 2

\* C8: for a non-empty stream the time axis has as many elements as every
\* channel has points, is non-decreasing, starts at 0, ends at
\* total_frames / sample_rate, and is the x data of every channel.
C8_TimeAxis ==
    (Plotted /\ total_samples >= 1) =>
        /\ \A c \in Channels :
              /\ Len(time_downsampled) = Len(downsampled_data[c])
              /\ plot_x[c] = time_downsampled
        /\ \A k \in 1..(Len(time_downsampled) - 1) :
              RatLeq(time_downsampled[k], time_downsampled[k + 1])
        /\ time_downsampled[1][1] = 0
        /\ time_downsampled[1][2] > 0
        /\ RatEq(time_downsampled[Len(time_downsampled)], <<total_samples, samplerate>>)

C8_Witness ==
    /\ pc = "done"
    /\ image
    /\ num_channels >= 2
    /\ samplerate >= 2
    /\ Len(time_downsampled) >= 4
    /\ Len(windows) < total_samples

\* C9: after every processed block all channels hold the same number of
\* points and of flags.
C9_SameLength ==
    \A c \in Channels : \A d \in Channels :
        /\ Len(downsampled_data[c]) = Len(downsampled_data[d])
        /\ Len(clipped_status[c]) = Len(downsampled_data[d])

C9_Witness ==
    /\ num_channels >= 2
    /\ pos = total_samples
    /\ total_samples > chunk_size_samples
    /\ Len(downsampled_data[num_channels]) >= 4

\* C10: the emitted windows are consecutive, non-empty, start at the first
\* frame and end at the last frame consumed, so every frame belongs to
\* exactly one window; every window has its two points in every channel, also
\* a trailing window shorter than downsample_factor.
C10_EveryFrameOnce ==
    /\ (pos > 0 => Len(windows) > 0 /\ windows[1][1] = 1
                     /\ windows[Len(windows)][2] = pos)
    /\ (pos = 0 => windows = <<>>)
    /\ \A k \in 1..Len(windows) :
          /\ windows[k][1] <= windows[k][2]
          /\ windows[k][2] - windows[k][1] < downsample_factor
          /\ (k > 1 => windows[k][1] = windows[k - 1][2] + 1)
    /\ \A c \in Channels : Len(downsampled_data[c]) = 2 * Len(windows)

C10_Witness ==
    /\ pos = total_samples
    /\ downsample_factor >= 2
    /\ Len(windows) >= 2
    /\ windows[Len(windows)][2] - windows[Len(windows)][1] + 1 < downsample_factor
    /\ Len(downsampled_data[1]) = 2 * Len(windows)

====
